---- MODULE Spec2Model ----
(***************************************************************************)
(* ProductsService of teslo-shop (src/src/products/products.service.ts):   *)
(* create, findAll, findOne, findOnePlain, update (inside a query-runner   *)
(* transaction), remove, deleteAllProducts and handleDBException, over a   *)
(* relational store of product rows and product-image rows.                *)
(*                                                                         *)
(* The committed store is what every statement outside a transaction       *)
(* reads. update() works on the transaction's private copy, which replaces *)
(* the committed store at commitTransaction and is dropped at              *)
(* rollbackTransaction.  Every awaited persistence call can fail with a    *)
(* driver error (the `fail` input of its action).  Spec serves one request *)
(* at a time; SpecReaders lets reading requests run between the steps of   *)
(* an update().                                                            *)
(***************************************************************************)
EXTENDS Integers, Sequences, FiniteSets, TLC

\* ------------------------------------------------------------------ bounds
MaxLen == 1          \* longest image list a request carries

\* ------------------------------------------------------------------ inputs
UUIDs == {"u1", "u2"}                     \* the well-formed identifiers
Titles == {"Shirt", "cap"}
Slugs == {"shirt", "cap"}
Urls == {"a.jpg", "b.jpg"}
Terms == UUIDs \cup {"SHIRT", "cap", "none"}

Undefined == "undefined"                  \* an absent string property
NoImages == [defined |-> FALSE, list |-> << >>]     \* an absent images key
SomeImages(l) == [defined |-> TRUE, list |-> l]

UrlLists == UNION {[1..n -> Urls] : n \in 0..MaxLen}
OptImages == {NoImages} \cup {SomeImages(l) : l \in UrlLists}

CreateDtos == [title : Titles, slug : Slugs \cup {Undefined}, images : OptImages]
UpdateDtos == [title : Titles \cup {Undefined}, slug : Slugs \cup {Undefined},
               images : OptImages]

DefaultLimit == 10
DefaultOffset == 0
Limits == {1, DefaultLimit}
Offsets == {DefaultOffset, 1}

\* ------------------------------------------------------------- pure helpers
\* uuid.validate
IsUUID(term) == term \in UUIDs

\* String.prototype.toLowerCase / SQL LOWER()
toLowerCase(s) ==
    CASE s = "Shirt" -> "shirt"
      [] s = "SHIRT" -> "shirt"
      [] OTHER -> s

\* `images = []` destructuring default
OrEmpty(images) == IF images.defined THEN images.list ELSE << >>

\* `if (images)`: an array, even an empty one, is truthy; undefined is not
TruthyBug(images) == images.defined /\ Len(images.list) > 0
Truthy(images) == images.defined

\* images.map((img) => img.url)
MapUrl(imgs) == [i \in 1..Len(imgs) |-> imgs[i].url]

\* ------------------------------------------------------------ the database
\* A store is [products : set of rows [id, title, slug], images : the rows
\* [url, product] of product_image in the order of their serial key].
EmptyDb == [products |-> {}, images |-> << >>]

ProductIds(db) == {p.id : p \in db.products}

\* position of a product row in the store's default order
Rank(id) == IF id = "u1" THEN 1 ELSE 2

\* rows of product_image whose foreign key is pid
ImageRowsOf(db, pid) == LET Owned(r) == r.product = pid IN SelectSeq(db.images, Owned)

\* the images relation of a product, loaded: entities [url]
LoadImages(db, pid) ==
    LET s == ImageRowsOf(db, pid) IN [i \in 1..Len(s) |-> [url |-> s[i].url]]

\* findOneBy({ id }) names no relation; whether it loads images is the
\* relation's eager option
EagerImages == FALSE

\* unique constraint on product.slug: would writing slug for pid collide?
SlugTaken(db, pid, slug) ==
    \E q \in db.products : q.id # pid /\ q.slug = slug

\* slug derived from the title when the request carries none
DeriveSlug(title, slug) == IF slug = Undefined THEN toLowerCase(title) ELSE slug

\* insert one row per url, in order, owned by pid
InsertImages(db, pid, urls) ==
    [db EXCEPT !.images =
        @ \o [i \in 1..Len(urls) |-> [url |-> urls[i], product |-> pid]]]

\* ON DELETE CASCADE of product_image.product
CascadeImages(db) ==
    LET Kept(r) == r.product \in ProductIds(db)
    IN [db EXCEPT !.images = SelectSeq(@, Kept)]

\* insert or update the row of an entity (save), then cascade-insert the
\* entity's new image entities when it carries any
SaveProduct(db, entity) ==
    LET row == [id |-> entity.id, title |-> entity.title, slug |-> entity.slug]
        d1 == [db EXCEPT !.products = {p \in @ : p.id # entity.id} \cup {row}]
    IN IF entity.images.defined THEN InsertImages(d1, entity.id, entity.images.list)
       ELSE d1

\* manager.delete(ProductImage, { product: { id } })
DeleteImages(db, id) ==
    LET Other(r) == r.product # id IN [db EXCEPT !.images = SelectSeq(@, Other)]

\* productRepository.remove(product)
RemoveProductBug(db, id) == CascadeImages([db EXCEPT !.products = {}])
RemoveProduct(db, id) ==
    CascadeImages([db EXCEPT !.products = {p \in @ : p.id # id}])

\* query.delete().where({}).execute()
DeleteAll(db) == CascadeImages([db EXCEPT !.products = {}])

\* commitTransaction / rollbackTransaction: the store readers see afterwards
RollbackToBug(committed, working) == working
RollbackTo(committed, working) == committed
CommitTo(committed, working) == working

\* ---------------------------------------------------------------- queries
\* the entity findOne builds from a row; images loaded or left undefined
Entity(db, p, withImages) ==
    [id |-> p.id, title |-> p.title, slug |-> p.slug,
     images |-> IF withImages THEN SomeImages(LoadImages(db, p.id)) ELSE NoImages]

\* where LOWER(title) = :title or slug = :slug, title: term.toLowerCase()
MatchesTermBug(p, term) == p.title = term \/ p.slug = term
MatchesTerm(p, term) == toLowerCase(p.title) = toLowerCase(term) \/ p.slug = term

\* the entities findOne(term) can return (getOne takes any one match)
FindOneResults(db, term) ==
    IF IsUUID(term)
    THEN {Entity(db, p, EagerImages) : p \in {q \in db.products : q.id = term}}
    ELSE {Entity(db, p, TRUE) : p \in {q \in db.products : MatchesTerm(q, term)}}

\* findOnePlain's projection: { ...rest, images: images.map(img => img.url) }
Plain(entity) ==
    [id |-> entity.id, title |-> entity.title, slug |-> entity.slug,
     images |-> MapUrl(OrEmpty(entity.images))]

RECURSIVE InOrder(_)
\* product rows in the store's default order
InOrder(rows) ==
    IF rows = {} THEN << >>
    ELSE LET r == CHOOSE x \in rows : \A y \in rows : Rank(x.id) <= Rank(y.id)
         IN <<r>> \o InOrder(rows \ {r})

Min(a, b) == IF a < b THEN a ELSE b

\* find({ take, skip, relations: { images: true } }) mapped to plain products
FindAllResult(db, limit, offset) ==
    LET all == InOrder(db.products)
        n == Min(limit, IF Len(all) > offset THEN Len(all) - offset ELSE 0)
    IN [i \in 1..n |-> Plain(Entity(db, all[i + offset], TRUE))]

\* preload({ id, ...rest }): the stored row with the defined properties of
\* rest written over it, or nothing when no row has the id
PreloadBug(db, id, rest) ==
    {[id |-> id, title |-> rest.title, slug |-> rest.slug, images |-> NoImages]}
Preload(db, id, rest) ==
    {[id |-> p.id,
      title |-> IF rest.title = Undefined THEN p.title ELSE rest.title,
      slug |-> IF rest.slug = Undefined THEN p.slug ELSE rest.slug,
      images |-> NoImages] : p \in {q \in db.products : q.id = id}}

\* ----------------------------------------------------------------- errors
UniqueViolation == [code |-> "23505"]
DriverFailure == [code |-> "other"]

\* handleDBException: the exception it throws
HandleDBExceptionBug(error) ==
    IF error.code = "23503" THEN "DuplicateKey" ELSE "InternalError"
HandleDBException(error) ==
    IF error.code = "23505" THEN "DuplicateKey" ELSE "InternalError"

\* ------------------------------------------------------------------ state
VARIABLES
    db,     \* the committed store
    work,   \* the open transaction's private copy of the store
    qr,     \* the query runner of the update() in flight
    pc,     \* where update() stands; "idle" when no update() is in flight
    req,    \* update()'s locals `id` and `images`
    ent,    \* update()'s local `product`
    err,    \* the error update()'s catch block holds
    pre,    \* the committed store when the update() in flight began
    res     \* the request that has just returned, and how

vars == <<db, work, qr, pc, req, ent, err, pre, res>>

NoQr == [acquired |-> FALSE, active |-> FALSE, rolledBack |-> FALSE,
         committed |-> FALSE, releases |-> 0]
NoEnt == [id |-> Undefined, title |-> Undefined, slug |-> Undefined,
          images |-> NoImages]
NoErr == [code |-> "none", at |-> "none"]
NoReq == [id |-> Undefined, images |-> NoImages]
Pending == [op |-> "none", term |-> Undefined, kind |-> "pending", value |-> << >>]
Outcome(op, term, kind, value) ==
    [op |-> op, term |-> term, kind |-> kind, value |-> value]

Init ==
    /\ db = EmptyDb
    /\ work = EmptyDb
    /\ qr = NoQr
    /\ pc = "idle"
    /\ req = NoReq
    /\ ent = NoEnt
    /\ err = NoErr
    /\ pre = EmptyDb
    /\ res = Pending

\* update()'s locals once the call has returned or thrown
Forget ==
    /\ pc' = "idle"
    /\ work' = EmptyDb /\ qr' = NoQr /\ req' = NoReq
    /\ ent' = NoEnt /\ err' = NoErr /\ pre' = EmptyDb

\* ----------------------------------------------------------------- create
\* the entity create() saves: the details, the slug the insert hook derives,
\* one new image entity per url
NewProduct(id, dto) ==
    [id |-> id, title |-> dto.title, slug |-> DeriveSlug(dto.title, dto.slug),
     images |-> SomeImages(OrEmpty(dto.images))]

\* { ...product, images }
Created(product, dto) ==
    [id |-> product.id, title |-> product.title, slug |-> product.slug,
     images |-> OrEmpty(dto.images)]

\* the id the store generates for a new row
NewId(store) ==
    CHOOSE id \in UUIDs \ ProductIds(store) :
        \A other \in UUIDs \ ProductIds(store) : Rank(id) <= Rank(other)

Create(dto, fail) ==
    /\ pc = "idle"
    /\ ProductIds(db) # UUIDs
    /\ UNCHANGED <<work, qr, pc, req, ent, err, pre>>
    /\ LET id == NewId(db)
           product == NewProduct(id, dto)
       IN IF fail
          THEN /\ res' = Outcome("create", id, HandleDBException(DriverFailure), << >>)
               /\ db' = db
          ELSE IF SlugTaken(db, id, product.slug)
          THEN /\ res' = Outcome("create", id, HandleDBException(UniqueViolation), << >>)
               /\ db' = db
          ELSE /\ db' = SaveProduct(db, product)
               /\ res' = Outcome("create", id, "ok", <<Created(product, dto)>>)

\* ------------------------------------------------------------------ reads
Read(op, term, kind, value) ==
    /\ res' = Outcome(op, term, kind, value)
    /\ UNCHANGED <<db, work, qr, pc, req, ent, err, pre>>

FindAll(limit, offset, fail) ==
    IF fail THEN Read("findAll", Undefined, "RawError", << >>)
    ELSE Read("findAll", Undefined, "ok", FindAllResult(db, limit, offset))

FindOne(term, fail) ==
    IF fail THEN Read("findOne", term, "RawError", << >>)
    ELSE IF FindOneResults(db, term) = {}
    THEN Read("findOne", term, "NotFound", << >>)
    ELSE \E product \in FindOneResults(db, term) :
            Read("findOne", term, "ok", <<product>>)

FindOnePlain(term, fail) ==
    IF fail THEN Read("findOnePlain", term, "RawError", << >>)
    ELSE IF FindOneResults(db, term) = {}
    THEN Read("findOnePlain", term, "NotFound", << >>)
    ELSE \E product \in FindOneResults(db, term) :
            Read("findOnePlain", term, "ok", <<Plain(product)>>)

\* ----------------------------------------------------------------- remove
Remove(term, failFind, failRemove) ==
    /\ pc = "idle"
    /\ UNCHANGED <<work, qr, pc, req, ent, err, pre>>
    /\ IF failFind
       THEN db' = db /\ res' = Outcome("remove", term, "RawError", << >>)
       ELSE IF FindOneResults(db, term) = {}
       THEN db' = db /\ res' = Outcome("remove", term, "NotFound", << >>)
       ELSE \E product \in FindOneResults(db, term) :
               IF failRemove
               THEN db' = db /\ res' = Outcome("remove", term, "RawError", << >>)
               ELSE /\ db' = RemoveProduct(db, product.id)
                    /\ res' = Outcome("remove", term, "ok", <<Plain(product)>>)

\* ------------------------------------------------------- deleteAllProducts
DeleteAllProducts(fail) ==
    /\ pc = "idle"
    /\ UNCHANGED <<work, qr, pc, req, ent, err, pre>>
    /\ IF fail
       THEN /\ db' = db
            /\ res' = Outcome("deleteAllProducts", Undefined,
                              HandleDBException(DriverFailure), << >>)
       ELSE /\ db' = DeleteAll(db)
            /\ res' = Outcome("deleteAllProducts", Undefined, "ok", << >>)

\* ----------------------------------------------------------------- update
\* update() goes on to its next await
Goes(next) ==
    /\ pc' = next
    /\ res' = Pending
    /\ UNCHANGED <<req, pre>>

\* update() returns or throws: the caller gets `kind`
Ends(kind, value) ==
    /\ res' = Outcome("update", req.id, kind, value)
    /\ Forget

\* the call throws inside the try block: the catch block takes the error
Caught(error, at) ==
    /\ err' = [code |-> error.code, at |-> at]
    /\ Goes("catch")

\* const { images, ...rest } = dto; preload; if (!product) throw NotFound
Update(id, dto, fail) ==
    /\ pc = "idle"
    /\ UNCHANGED <<db, work, qr, err>>
    /\ IF fail \/ Preload(db, id, dto) = {}
       THEN /\ res' = Outcome("update", id, IF fail THEN "RawError" ELSE "NotFound", << >>)
            /\ UNCHANGED <<pc, req, ent, pre>>
       ELSE \E product \in Preload(db, id, dto) :
               /\ ent' = product
               /\ req' = [id |-> id, images |-> dto.images]
               /\ pre' = db
               /\ pc' = "connect"
               /\ res' = Pending

\* createQueryRunner(); await connect()
Connect(fail) ==
    /\ pc = "connect"
    /\ db' = db
    /\ IF fail THEN Ends("RawError", << >>)
       ELSE Goes("start") /\ qr' = [qr EXCEPT !.acquired = TRUE]
                          /\ UNCHANGED <<work, ent, err>>

\* await startTransaction()
StartTransaction(fail) ==
    /\ pc = "start"
    /\ db' = db
    /\ IF fail THEN Ends("RawError", << >>)
       ELSE /\ Goes("try")
            /\ qr' = [qr EXCEPT !.active = TRUE]
            /\ work' = db
            /\ UNCHANGED <<ent, err>>

\* if (images) { await manager.delete(...); product.images = images.map(...) }
DeleteOldImages(fail) ==
    /\ pc = "try"
    /\ Truthy(req.images)
    /\ UNCHANGED <<db, qr>>
    /\ IF fail THEN Caught(DriverFailure, "delete") /\ UNCHANGED <<work, ent>>
       ELSE /\ work' = DeleteImages(work, req.id)
            /\ ent' = [ent EXCEPT !.images = SomeImages(req.images.list)]
            /\ err' = err
            /\ Goes("save")

\* await manager.save(product)
SaveMerged(fail) ==
    /\ pc = "save" \/ (pc = "try" /\ ~Truthy(req.images))
    /\ UNCHANGED <<db, qr, ent>>
    /\ IF fail THEN Caught(DriverFailure, "save") /\ work' = work
       ELSE IF SlugTaken(work, ent.id, ent.slug)
       THEN Caught(UniqueViolation, "save") /\ work' = work
       ELSE /\ work' = SaveProduct(work, ent)
            /\ err' = err
            /\ Goes("commit")

\* await commitTransaction()
CommitTransaction(fail) ==
    /\ pc = "commit"
    /\ UNCHANGED <<work, ent>>
    /\ IF fail THEN Caught(DriverFailure, "commit") /\ UNCHANGED <<db, qr>>
       ELSE /\ db' = CommitTo(db, work)
            /\ qr' = [qr EXCEPT !.active = FALSE, !.committed = TRUE]
            /\ err' = err
            /\ Goes("release")

\* await release(), on the success path
Release(fail) ==
    /\ pc = "release"
    /\ UNCHANGED <<db, work, ent>>
    /\ IF fail THEN Caught(DriverFailure, "release") /\ qr' = qr
       ELSE /\ qr' = [qr EXCEPT !.releases = @ + 1]
            /\ err' = err
            /\ Goes("return")

\* return this.findOnePlain(id): its rejection is not caught by the try
ReturnPlain(fail) ==
    /\ pc = "return"
    /\ db' = db
    /\ IF fail THEN Ends("RawError", << >>)
       ELSE IF FindOneResults(db, req.id) = {} THEN Ends("NotFound", << >>)
       ELSE \E product \in FindOneResults(db, req.id) :
               Ends("ok", <<Plain(product)>>)

\* catch: await rollbackTransaction(); it throws when no transaction is open
RollbackTransaction(fail) ==
    /\ pc = "catch"
    /\ IF fail \/ ~qr.active THEN Ends("RawError", << >>) /\ db' = db
       ELSE /\ db' = RollbackTo(db, work)
            /\ qr' = [qr EXCEPT !.active = FALSE, !.rolledBack = TRUE]
            /\ UNCHANGED <<work, ent, err>>
            /\ Goes("catchRelease")

\* catch: await release()
ReleaseInCatch(fail) ==
    /\ pc = "catchRelease"
    /\ db' = db
    /\ IF fail THEN Ends("RawError", << >>)
       ELSE /\ qr' = [qr EXCEPT !.releases = @ + 1]
            /\ UNCHANGED <<work, ent, err>>
            /\ Goes("handle")

\* catch: this.handleDBException(error)
Handle ==
    /\ pc = "handle"
    /\ db' = db
    /\ Ends(HandleDBException(err), << >>)

\* ------------------------------------------------------------ specification
UpdateSteps ==
    \/ \E fail \in BOOLEAN : Connect(fail)
    \/ \E fail \in BOOLEAN : StartTransaction(fail)
    \/ \E fail \in BOOLEAN : DeleteOldImages(fail)
    \/ \E fail \in BOOLEAN : SaveMerged(fail)
    \/ \E fail \in BOOLEAN : CommitTransaction(fail)
    \/ \E fail \in BOOLEAN : Release(fail)
    \/ \E fail \in BOOLEAN : ReturnPlain(fail)
    \/ \E fail \in BOOLEAN : RollbackTransaction(fail)
    \/ \E fail \in BOOLEAN : ReleaseInCatch(fail)
    \/ Handle

\* requests served one at a time
Next ==
    \/ \E dto \in CreateDtos, fail \in BOOLEAN : Create(dto, fail)
    \/ pc = "idle" /\ \E limit \in Limits, offset \in Offsets, fail \in BOOLEAN :
          FindAll(limit, offset, fail)
    \/ pc = "idle" /\ \E term \in Terms, fail \in BOOLEAN : FindOne(term, fail)
    \/ pc = "idle" /\ \E term \in Terms, fail \in BOOLEAN : FindOnePlain(term, fail)
    \/ \E term \in Terms, failFind, failRemove \in BOOLEAN :
          Remove(term, failFind, failRemove)
    \/ \E fail \in BOOLEAN : DeleteAllProducts(fail)
    \/ \E id \in UUIDs, dto \in UpdateDtos, fail \in BOOLEAN : Update(id, dto, fail)
    \/ UpdateSteps

Spec == Init /\ [][Next]_vars

\* reading requests run between the steps of an update() too
ReaderTerms == {"u1", "cap"}

NextReaders ==
    \/ \E dto \in CreateDtos, fail \in BOOLEAN : Create(dto, fail)
    \/ FindAll(DefaultLimit, DefaultOffset, FALSE)
    \/ \E term \in ReaderTerms : FindOne(term, FALSE)
    \/ \E term \in ReaderTerms : FindOnePlain(term, FALSE)
    \/ \E id \in UUIDs, dto \in UpdateDtos, fail \in BOOLEAN : Update(id, dto, fail)
    \/ UpdateSteps

SpecReaders == Init /\ [][NextReaders]_vars

\* ------------------------------------------------------------------ claims
\* the stored row of product id, as findOne by title or slug returns it
Stored(store, id) ==
    {Plain(Entity(store, p, TRUE)) : p \in {q \in store.products : q.id = id}}

UrlsOf(store, id) == MapUrl(LoadImages(store, id))

\* C1: when the delete of the old images or the save of the merged product
\* fails inside update()'s transaction, every later step of the call, the one
\* that reports the error included, leaves the committed store as it was
\* before the call, and an error classified by handleDBException is reported
\* only after the transaction was rolled back.
C1_FailedUpdateLeavesStore ==
    [][(pc \in {"catch", "catchRelease", "handle"} /\ err.at \in {"delete", "save"})
         => /\ db' = pre
            /\ (pc' = "idle" /\ res'.kind \in {"DuplicateKey", "InternalError"}
                  => qr.rolledBack)]_vars

\* a save failed after the old images were deleted in the transaction, the
\* rollback ran, and the product still has its images
C1_Witness ==
    /\ pc = "handle"
    /\ err.at = "save"
    /\ qr.rolledBack
    /\ work # db
    /\ db = pre
    /\ Len(ImageRowsOf(db, req.id)) > 0

\* C2: an update() that acquired the query runner has released it exactly
\* once when it returns or throws.
C2_ReleasedExactlyOnce ==
    [][(pc # "idle" /\ pc' = "idle" /\ qr.acquired) => qr.releases = 1]_vars

\* the url lists a returned read shows for product id
Observed(r, id) ==
    IF r.kind # "ok" THEN {}
    ELSE IF r.op \in {"findAll", "findOnePlain"}
    THEN {r.value[i].images : i \in {j \in 1..Len(r.value) : r.value[j].id = id}}
    ELSE IF r.op = "findOne"
    THEN {MapUrl(r.value[i].images.list) :
            i \in {j \in 1..Len(r.value) :
                     r.value[j].id = id /\ r.value[j].images.defined}}
    ELSE {}

\* C3: while update(id, {images: L}), L not empty, runs on a product that has
\* images, every read of that product returns the whole old or the whole new
\* list of urls.
C3_ReadersSeeOldOrNew ==
    (/\ pc # "idle"
     /\ req.images.defined
     /\ Len(req.images.list) > 0
     /\ Len(ImageRowsOf(pre, req.id)) > 0)
    => \A seen \in Observed(res, req.id) :
          seen = UrlsOf(pre, req.id) \/ seen = req.images.list

\* C4: once update() has committed, the product's stored images are exactly
\* the supplied urls when the images key is present (the empty list too), and
\* the images it had before the call when the key is absent.
C4_ImagesReplacedOrKept ==
    pc = "return" =>
        IF req.images.defined
        THEN UrlsOf(db, req.id) = req.images.list
        ELSE ImageRowsOf(db, req.id) = ImageRowsOf(pre, req.id)

\* update(id, {images: []}) committed on a product that had an image
C4_Witness ==
    /\ pc = "return"
    /\ req.images.defined
    /\ req.images.list = << >>
    /\ Len(ImageRowsOf(pre, req.id)) > 0
    /\ Len(ImageRowsOf(db, req.id)) = 0

\* C5: a request that fails gives its caller NotFound, DuplicateKey or
\* InternalError, never the persistence layer's own error.
C5_ThreeErrorKinds ==
    res.kind \in {"pending", "ok", "NotFound", "DuplicateKey", "InternalError"}

\* C6: update() with an id no product has, once preload has answered, throws
\* NotFound, changes no row and does not get as far as the query runner.
C6_UpdateMissingId ==
    [][(pc = "idle" /\ (pc' = "connect" \/ res'.op = "update"))
         => LET id == IF pc' = "connect" THEN req'.id ELSE res'.term
            IN (id \notin ProductIds(db) /\ res'.kind # "RawError")
                 => /\ res'.kind = "NotFound"
                    /\ db' = db
                    /\ pc' = "idle"
                    /\ ~qr'.acquired]_vars

\* update() of a missing id has thrown NotFound while another product is stored
C6_Witness ==
    /\ res.op = "update"
    /\ res.kind = "NotFound"
    /\ res.term \notin ProductIds(db)
    /\ db.products # {}
    /\ pc = "idle"

\* no two rows of a store share a slug
UniqueSlugs(store) ==
    \A p, q \in store.products : p.slug = q.slug => p = q

\* C7: no two stored products share a slug; a create whose slug another
\* product holds, and an update whose save hit the unique constraint, throw
\* DuplicateKey and leave every row as it was.
C7_SlugUnique ==
    [][/\ UniqueSlugs(db')
       /\ res'.op = "create" =>
             \A dto \in CreateDtos :
                (/\ Create(dto, FALSE)
                 /\ \E q \in db.products : q.slug = DeriveSlug(dto.title, dto.slug))
                => res'.kind = "DuplicateKey" /\ db' = db
       /\ (pc = "handle" /\ err.code = "23505")
             => res'.kind = "DuplicateKey" /\ db' = pre]_vars

\* a create has thrown DuplicateKey
C7_Witness ==
    /\ res.op = "create"
    /\ res.kind = "DuplicateKey"
    /\ db.products # {}

\* C8: a committed update() returns the product with the urls now stored for
\* it, as findOnePlain by slug or title gives it.
C8_UpdateReturnsStored ==
    [][(pc = "return" /\ pc' = "idle" /\ res'.kind = "ok")
         => res'.value[1] \in Stored(db', req.id)]_vars

\* C9: findOne changes nothing; with a well-formed id it returns the product
\* of that id and throws NotFound when there is none; with another term it
\* returns a product whose title is the term up to case or whose slug is the
\* term, and throws NotFound exactly when there is none.
C9_FindOne ==
    [][(res'.op = "findOne" /\ res'.kind # "RawError")
         => LET term == res'.term
                hits == IF IsUUID(term)
                        THEN {p \in db.products : p.id = term}
                        ELSE {p \in db.products :
                                \/ toLowerCase(p.title) = toLowerCase(term)
                                \/ p.slug = term}
            IN /\ db' = db
               /\ res'.kind = "NotFound" <=> hits = {}
               /\ res'.kind = "ok" =>
                    \E p \in hits : /\ res'.value[1].id = p.id
                                    /\ res'.value[1].title = p.title
                                    /\ res'.value[1].slug = p.slug]_vars

\* findOne("SHIRT") has returned the product titled "Shirt"
C9_Witness ==
    /\ res.op = "findOne"
    /\ res.term = "SHIRT"
    /\ res.kind = "ok"
    /\ res.value[1].title = "Shirt"

\* C10: every image row belongs to a stored product; remove(id) of a stored
\* id deletes that product and its images and nothing else, remove(id) of any
\* other id throws NotFound and deletes nothing; findOne(id) of an id that is
\* not stored throws NotFound.
C10_Remove ==
    [][/\ \A i \in 1..Len(db'.images) : db'.images[i].product \in ProductIds(db')
       /\ (res'.op = "remove" /\ IsUUID(res'.term) /\ res'.kind # "RawError")
            => LET id == res'.term
                   Other(r) == r.product # id
               IN IF id \in ProductIds(db)
                  THEN /\ res'.kind = "ok"
                       /\ db'.products = {p \in db.products : p.id # id}
                       /\ db'.images = SelectSeq(db.images, Other)
                  ELSE res'.kind = "NotFound" /\ db' = db
       /\ (/\ res'.op = "findOne"
           /\ IsUUID(res'.term)
           /\ res'.term \notin ProductIds(db)
           /\ res'.kind # "RawError")
            => res'.kind = "NotFound"]_vars

\* remove(id) has deleted a product and another product kept its image
C10_Witness ==
    /\ res.op = "remove"
    /\ res.kind = "ok"
    /\ IsUUID(res.term)
    /\ res.term \notin ProductIds(db)
    /\ db.products # {}
    /\ Len(db.images) > 0

====
